---- MODULE Spec2Model ----
(***************************************************************************)
(* Air-Aware: the live-data path of the air quality dashboard.             *)
(*                                                                         *)
(*   device --POST /api/arduino--> backend --save--> MongoDB collection    *)
(*                                     \--io.emit('sensor-data')--> viewers *)
(*   viewer --GET /api/latest (on mount, every 30 s, on Retry)--> backend  *)
(*                                                                         *)
(* Backend: src/air-quality-backend/server.js.                             *)
(* Viewer (React App component): src/unnamed/part_001.                     *)
(*                                                                         *)
(* Numbers are integers: a reading's timestamp is an instant of the        *)
(* server's clock (milliseconds in the code, ticks here), and a Date that  *)
(* went through JSON (toISOString, then new Date(string)) is the same      *)
(* instant, so a timestamp on the wire is the stored integer.              *)
(***************************************************************************)
EXTENDS Integers, Sequences, FiniteSets, TLC

\* ------------------------------------------------------------------ bounds
MaxTime == 2        \* the server clock runs 1..MaxTime
MaxIngest == 2      \* POST /api/arduino requests in a run
MaxPolls == 2       \* GET /api/latest requests one viewer has in flight
MaxSessions == 2    \* socket sessions (connects) of one viewer
MaxApplied == 2     \* calls of updateLocationData with one reading

Clients == {"v1", "v2"}

\* ------------------------------------------------------- program constants
DefaultLatitude == 6791164      \* 6.791164, in micro-degrees
DefaultLongitude == 79900497    \* 79.900497, in micro-degrees
DefaultLimit == 50
DefaultPage == 1
NoDate == 0                     \* lastUpdate === null

RequiredFields ==
  {"temperature", "humidity", "vocIndex", "vocRaw", "pm1", "pm25", "pm10",
   "rainfall", "windSpeed", "windDirection"}

\* ------------------------------------------------------------ JS helpers
\* a || b on the values the viewer reads: undefined (field absent) and 0 are falsy
JsOr(rec, f, dflt) ==
  IF f \in DOMAIN rec /\ rec[f] # 0 THEN rec[f] ELSE dflt

Without(rec, f) == [g \in DOMAIN rec \ {f} |-> rec[g]]

With(rec, f, v) == [g \in DOMAIN rec \cup {f} |-> IF g = f THEN v ELSE rec[g]]

\* ------------------------------------------------------------- payloads
\* The bodies a device posts: the complete reading of the end-to-end scenario,
\* with or without a timestamp of its own, and the same with one required field
\* left out.
Temperatures == {25, 31}
DroppedFields == {"humidity", "temperature", "windDirection"}

FullBody(t) ==
  [temperature |-> t, humidity |-> 60, vocIndex |-> 100, vocRaw |-> 25000,
   pm1 |-> 5, pm25 |-> 10, pm10 |-> 15, rainfall |-> 0, windSpeed |-> 2,
   windDirection |-> "N"]

\* a complete body, told apart from the default reading by its temperature
DeviceBodies == {FullBody(31)}

\* complete and incomplete bodies
Bodies == DeviceBodies \cup {Without(FullBody(31), f) : f \in DroppedFields}

\* complete bodies of either temperature, some with a timestamp of their own
StampedBodies ==
  LET full == {FullBody(t) : t \in Temperatures}
  IN full \cup {With(b, "timestamp", ts) : b \in full, ts \in 1..MaxTime}

\* -------------------------------------------------------------- schema
\* new SensorData(req.body): the schema's fields of the body, the defaults of
\* location and timestamp (Date.now at construction), and a fresh _id
NewSensorData(body, id, clock) ==
  LET located == IF "location" \in DOMAIN body THEN body
                 ELSE With(body, "location",
                           [latitude |-> DefaultLatitude, longitude |-> DefaultLongitude])
      stamped == IF "timestamp" \in DOMAIN located THEN located
                 ELSE With(located, "timestamp", clock)
  IN With(stamped, "_id", id)

\* faulty variant: humidity declared without `required: true`
ValidatesLax(doc) == \A f \in RequiredFields \ {"humidity"} : f \in DOMAIN doc

\* validation run by save(): every `required: true` path is present
Validates(doc) == \A f \in RequiredFields : f \in DOMAIN doc

\* ------------------------------------------------------------------ state
VARIABLES
  now,               \* the server's clock (Date.now)
  store,             \* the SensorData collection: a set of documents
  ingest,            \* POST /api/arduino requests: [doc, pc], pc one of
                     \*   "saving" (awaiting save), "saved" (save resolved),
                     \*   "acked" (emitted and answered success), "failed" (500)
  sockets,           \* the viewers whose socket the server holds connected
  channel,           \* per viewer: 'sensor-data' events on the wire, in order
  session,           \* per viewer: how many socket sessions it has opened
  mounted,           \* per viewer: the App component is mounted
  connectionStatus,  \* per viewer: "Disconnected" | "Connected"
  currentLocation,   \* per viewer: the reading on display
  lastUpdate,        \* per viewer: timestamp of the reading on display
  isLoading,         \* per viewer
  error,             \* per viewer: an error message is on display
  polls,             \* per viewer: GET /api/latest requests in flight,
                     \*   [st |-> "sent" | "answered", data |-> {} | {body}]
  emitted,           \* history: the io.emit calls, [id, audience]
  delivered,         \* history: <<viewer, session, _id>> of every push handled
  reply,             \* the answer of the last GET /api/data or /api/data/range
  walk,              \* a reader paging through GET /api/data: what it has
                     \*   got so far, and whether the store changed meanwhile
  trial              \* updateLocationData applied repeatedly to one reading

vars == <<now, store, ingest, sockets, channel, session, mounted,
          connectionStatus, currentLocation, lastUpdate, isLoading, error,
          polls, emitted, delivered, reply, walk, trial>>


\* ------------------------------------------------------------ the viewer
InitialLocation ==
  [latitude |-> DefaultLatitude, longitude |-> DefaultLongitude,
   temperature |-> 0, humidity |-> 0, voc |-> 0, pm25 |-> 0, pm10 |-> 0,
   pm1 |-> 0, rainfall |-> 0, windSpeed |-> 0, windDirection |-> "Unknown"]

\* the currentLocation object updateLocationData builds from data
LocationOf(data) ==
  [latitude |-> IF "location" \in DOMAIN data
                THEN JsOr(data.location, "latitude", DefaultLatitude)
                ELSE DefaultLatitude,
   longitude |-> IF "location" \in DOMAIN data
                 THEN JsOr(data.location, "longitude", DefaultLongitude)
                 ELSE DefaultLongitude,
   temperature |-> JsOr(data, "temperature", 0),
   humidity |-> JsOr(data, "humidity", 0),
   voc |-> JsOr(data, "vocIndex", 0),
   pm25 |-> JsOr(data, "pm25", 0),
   pm10 |-> JsOr(data, "pm10", 0),
   pm1 |-> JsOr(data, "pm1", 0),
   rainfall |-> JsOr(data, "rainfall", 0),
   windSpeed |-> JsOr(data, "windSpeed", 0),
   windDirection |-> IF "windDirection" \in DOMAIN data
                     THEN data.windDirection ELSE "Unknown"]

\* faulty variant: the temperature on display is smoothed with the incoming one
updateSmoothing(view, data) ==
  IF "temperature" \in DOMAIN data
  THEN [currentLocation |->
          [LocationOf(data) EXCEPT
             !.temperature = (view.currentLocation.temperature + @) \div 2],
        lastUpdate |-> data.timestamp]
  ELSE view

\* updateLocationData(data): the view [currentLocation, lastUpdate] after the
\* call; data is a parsed JSON object, so `data &&` holds
updateLocationData(view, data) ==
  IF "temperature" \in DOMAIN data
  THEN [currentLocation |-> LocationOf(data), lastUpdate |-> data.timestamp]
  ELSE view

ViewOf(c) == [currentLocation |-> currentLocation[c], lastUpdate |-> lastUpdate[c]]

RemoveAt(s, k) == [j \in 1..(Len(s) - 1) |-> IF j < k THEN s[j] ELSE s[j + 1]]

\* ------------------------------------------------------------ the store
MaxTimestamp(docs) == CHOOSE m \in {d.timestamp : d \in docs} :
                        \A d \in docs : d.timestamp <= m

MinTimestamp(docs) == CHOOSE m \in {d.timestamp : d \in docs} :
                        \A d \in docs : d.timestamp >= m

\* faulty variant: sort({timestamp: 1})
FindOldest(docs) ==
  IF docs = {} THEN {} ELSE {d \in docs : d.timestamp = MinTimestamp(docs)}

\* findOne().sort({timestamp: -1}): the documents the query may return (any one
\* of those with the greatest timestamp; none from an empty collection)
FindLatest(docs) ==
  IF docs = {} THEN {} ELSE {d \in docs : d.timestamp = MaxTimestamp(docs)}

\* the body GET /api/latest answers when the collection is empty
DefaultReading(clock) ==
  [temperature |-> 25, humidity |-> 60, vocIndex |-> 100, vocRaw |-> 25000,
   pm1 |-> 5, pm25 |-> 10, pm10 |-> 15, rainfall |-> 0, windSpeed |-> 2,
   windDirection |-> "N",
   location |-> [latitude |-> DefaultLatitude, longitude |-> DefaultLongitude],
   timestamp |-> clock]

LatestBodies(docs, clock) ==
  IF FindLatest(docs) = {} THEN {DefaultReading(clock)} ELSE FindLatest(docs)

\* ----------------------------------------------------- query parameters
\* A query parameter is absent ({}) or one string ({s}); a string is a sequence
\* of characters.
Digits == {"0", "1", "2", "3", "4", "5", "6", "7", "8", "9"}

DigitValue(ch) ==
  CASE ch = "0" -> 0 [] ch = "1" -> 1 [] ch = "2" -> 2 [] ch = "3" -> 3
    [] ch = "4" -> 4 [] ch = "5" -> 5 [] ch = "6" -> 6 [] ch = "7" -> 7
    [] ch = "8" -> 8 [] ch = "9" -> 9

\* the length of the longest prefix of s made of digits
RECURSIVE DigitPrefix(_)
DigitPrefix(s) ==
  IF s = <<>> \/ Head(s) \notin Digits THEN 0 ELSE 1 + DigitPrefix(Tail(s))

RECURSIVE Decimal(_)
Decimal(s) ==
  IF s = <<>> THEN 0 ELSE 10 * Decimal(SubSeq(s, 1, Len(s) - 1)) + DigitValue(s[Len(s)])

\* parseInt(x): {} is NaN, {n} the integer. An optional sign, then the leading
\* digits; what follows them is ignored; NaN without a digit, and for undefined.
parseInt(param) ==
  IF param = {} THEN {}
  ELSE LET s == CHOOSE x \in param : TRUE
           neg == s # <<>> /\ Head(s) = "-"
           body == IF neg THEN Tail(s) ELSE s
           n == DigitPrefix(body)
       IN IF n = 0 THEN {}
          ELSE {IF neg THEN 0 - Decimal(SubSeq(body, 1, n)) ELSE Decimal(SubSeq(body, 1, n))}

\* parseInt(x) || dflt: NaN and 0 are falsy
OrDefault(num, dflt) ==
  IF num = {} \/ num = {0} THEN dflt ELSE CHOOSE n \in num : TRUE

\* new Date(string): {} is Invalid Date, {t} the instant. A date string is
\* written here as the decimal number of the instant (it stands for that
\* instant's ISO string); any other string does not parse.
NewDate(s) ==
  IF s # <<>> /\ DigitPrefix(s) = Len(s) THEN {Decimal(s)} ELSE {}

\* !x on a query parameter: undefined and the empty string are falsy
Falsy(param) == param = {} \/ param = {<<>>}

\* .sort({timestamp: -1}): the orders the query may return the documents in.
\* Documents with equal timestamps come in any order, which need not be the
\* same from one query to the next.
SortedDesc(docs) ==
  {q \in [1..Cardinality(docs) -> docs] :
     /\ \A i, j \in 1..Cardinality(docs) : i # j => q[i] # q[j]
     /\ \A i, j \in 1..Cardinality(docs) : i < j => q[i].timestamp >= q[j].timestamp}

Min(a, b) == IF a < b THEN a ELSE b

\* .skip(skip).limit(limit) of an order; a negative limit is a limit of -limit
SkipLimit(order, skip, limit) ==
  LET n == IF limit < 0 THEN 0 - limit ELSE limit
  IN SubSeq(order, skip + 1, Min(Len(order), skip + n))

\* Math.ceil(total / limit), limit not 0
CeilDiv(total, limit) ==
  IF limit > 0 THEN (total + limit - 1) \div limit
  ELSE 0 - (total \div (0 - limit))

\* the strings a reader passes as page and limit, and as range bounds
PageStrings == {<<"1">>, <<"2">>, <<"0">>, <<"-", "1">>, <<"x">>}

LimitStrings == {<<"1">>, <<"2", "x">>, <<"-", "1">>}

DateStrings == {<<"1">>, <<"2">>, <<"x">>, <<"2", "x">>, <<>>}

Optional(S) == {{}} \cup {{x} : x \in S}

\* reply: the route, where its handler stands ("counting": between the two
\* awaits of GET /api/data), the status, the requested page and limit as the
\* handler took them, the range bounds as sent, the documents, total and pages,
\* and whether a document was saved between the handler's two queries
NoReply ==
  [route |-> "none", pc |-> "done", status |-> 0, page |-> 0, limit |-> 0,
   first |-> {}, second |-> {}, data |-> <<>>, total |-> 0, pages |-> 0,
   dirty |-> FALSE]

\* walk: a reader that asks for page 1, 2, ... with one limit and appends what
\* it gets; pages is the page count of the last answer; clean as long as no
\* document was saved since the walk began
NoWalk ==
  [on |-> FALSE, limit |-> 0, next |-> 1, items |-> <<>>, pages |-> 0, clean |-> TRUE]

NoTrial == [base |-> {}, data |-> {}, view |-> {}, applied |-> 0]

\* ------------------------------------------------------------------ Init
\* The backend has started with an empty collection. Each viewer of `open` has
\* mounted: its effects have created the socket (not yet connected), called
\* fetchLatestData() once and set the 30 s interval. The other viewers were
\* never opened.
InitWith(open) ==
  /\ now = 1
  /\ store = {}
  /\ ingest = <<>>
  /\ sockets = {}
  /\ channel = [c \in Clients |-> <<>>]
  /\ session = [c \in Clients |-> 0]
  /\ mounted = [c \in Clients |-> c \in open]
  /\ connectionStatus = [c \in Clients |-> "Disconnected"]
  /\ currentLocation = [c \in Clients |-> InitialLocation]
  /\ lastUpdate = [c \in Clients |-> NoDate]
  /\ isLoading = [c \in Clients |-> TRUE]
  /\ error = [c \in Clients |-> FALSE]
  /\ polls = [c \in Clients |->
               IF c \in open THEN << [st |-> "sent", data |-> {}] >> ELSE <<>>]
  /\ emitted = <<>>
  /\ delivered = {}
  /\ reply = NoReply
  /\ walk = NoWalk
  /\ trial = NoTrial

Init == InitWith({"v1"})

\* ------------------------------------------------------- backend actions
Tick ==
  /\ now < MaxTime
  /\ now' = now + 1
  /\ UNCHANGED <<reply, walk, trial, store, ingest, sockets, channel, session, mounted,
                 connectionStatus, currentLocation, lastUpdate, isLoading,
                 error, polls, emitted, delivered>>

\* POST /api/arduino, up to the await: the document is built from the body
PostArduino(body) ==
  /\ Len(ingest) < MaxIngest
  /\ ingest' = Append(ingest,
                 [doc |-> NewSensorData(body, Len(ingest) + 1, now), pc |-> "saving"])
  /\ UNCHANGED <<reply, walk, trial, now, store, sockets, channel, session, mounted,
                 connectionStatus, currentLocation, lastUpdate, isLoading,
                 error, polls, emitted, delivered>>

\* sensorData.save() validates and inserts
SaveStored(i) ==
  /\ ingest[i].pc = "saving"
  /\ Validates(ingest[i].doc)
  /\ store' = store \cup {ingest[i].doc}
  /\ ingest' = [ingest EXCEPT ![i].pc = "saved"]
  /\ walk' = [walk EXCEPT !.clean = FALSE]
  /\ reply' = [reply EXCEPT !.dirty = (reply.pc = "counting")]
  /\ UNCHANGED <<trial, now, sockets, channel, session, mounted, connectionStatus,
                 currentLocation, lastUpdate, isLoading, error, polls, emitted,
                 delivered>>

\* save() rejects (a ValidationError, or the database is unreachable): the catch
\* block answers 500
SaveRejected(i) ==
  /\ ingest[i].pc = "saving"
  /\ ingest' = [ingest EXCEPT ![i].pc = "failed"]
  /\ UNCHANGED <<reply, walk, trial, now, store, sockets, channel, session, mounted,
                 connectionStatus, currentLocation, lastUpdate, isLoading,
                 error, polls, emitted, delivered>>

\* faulty variant: events are kept for the viewers that are not connected
BroadcastBuffered(ch, socks, doc) == [c \in Clients |-> Append(ch[c], doc)]

\* io.emit('sensor-data', doc): one event onto the wire of every connected socket
Broadcast(ch, socks, doc) ==
  [c \in Clients |-> IF c \in socks THEN Append(ch[c], doc) ELSE ch[c]]

\* faulty variant: save() not awaited: the emit and the answer do not wait for it
EmitBeforeSave(i) ==
  /\ ingest[i].pc = "saving"
  /\ channel' = Broadcast(channel, sockets, ingest[i].doc)
  /\ emitted' = Append(emitted,
                  [id |-> ingest[i].doc._id,
                   audience |-> {<<c, session[c]>> : c \in sockets}])
  /\ ingest' = [ingest EXCEPT ![i].pc = "acked"]
  /\ UNCHANGED <<reply, walk, trial, now, store, sockets, session, mounted,
                 connectionStatus, currentLocation, lastUpdate, isLoading, error,
                 polls, delivered>>

\* after the await: io.emit, then res.json({success: true})
EmitAndAck(i) ==
  /\ ingest[i].pc = "saved"
  /\ channel' = Broadcast(channel, sockets, ingest[i].doc)
  /\ emitted' = Append(emitted,
                  [id |-> ingest[i].doc._id,
                   audience |-> {<<c, session[c]>> : c \in sockets}])
  /\ ingest' = [ingest EXCEPT ![i].pc = "acked"]
  /\ UNCHANGED <<reply, walk, trial, now, store, sockets, session, mounted, connectionStatus,
                 currentLocation, lastUpdate, isLoading, error, polls, delivered>>

\* GET /api/latest handled for the k-th request of viewer c in flight
GetLatest(c, k) ==
  /\ k \in 1..Len(polls[c])
  /\ polls[c][k].st = "sent"
  /\ \E body \in LatestBodies(store, now) :
       polls' = [polls EXCEPT ![c][k] = [st |-> "answered", data |-> {body}]]
  /\ UNCHANGED <<reply, walk, trial, now, store, ingest, sockets, channel, session, mounted,
                 connectionStatus, currentLocation, lastUpdate, isLoading,
                 error, emitted, delivered>>

\* ------------------------------------------------------- socket actions
\* the socket connects: io.on('connection') on the server, 'connect' on the viewer
Connect(c) ==
  /\ mounted[c]
  /\ c \notin sockets
  /\ session[c] < MaxSessions
  /\ sockets' = sockets \cup {c}
  /\ session' = [session EXCEPT ![c] = @ + 1]
  /\ connectionStatus' = [connectionStatus EXCEPT ![c] = "Connected"]
  /\ UNCHANGED <<reply, walk, trial, now, store, ingest, channel, mounted, currentLocation,
                 lastUpdate, isLoading, error, polls, emitted, delivered>>

\* faulty variant: the 'disconnect' handler also puts the view back to its start
DisconnectClearsView(c) ==
  /\ c \in sockets
  /\ sockets' = sockets \ {c}
  /\ channel' = [channel EXCEPT ![c] = <<>>]
  /\ connectionStatus' = [connectionStatus EXCEPT ![c] = "Disconnected"]
  /\ currentLocation' = [currentLocation EXCEPT ![c] = InitialLocation]
  /\ lastUpdate' = [lastUpdate EXCEPT ![c] = NoDate]
  /\ UNCHANGED <<reply, walk, trial, now, store, ingest, session, mounted,
                 isLoading, error, polls, emitted, delivered>>

\* the connection is lost: events on the wire are gone with it
Disconnect(c) ==
  /\ c \in sockets
  /\ sockets' = sockets \ {c}
  /\ channel' = [channel EXCEPT ![c] = <<>>]
  /\ connectionStatus' = [connectionStatus EXCEPT ![c] = "Disconnected"]
  /\ UNCHANGED <<reply, walk, trial, now, store, ingest, session, mounted, currentLocation,
                 lastUpdate, isLoading, error, polls, emitted, delivered>>

\* faulty variant: the event handled is the last one put on the wire
OnSensorDataNewestFirst(c) ==
  /\ channel[c] # <<>>
  /\ LET data == channel[c][Len(channel[c])]
         view == updateLocationData(ViewOf(c), data)
     IN /\ currentLocation' = [currentLocation EXCEPT ![c] = view.currentLocation]
        /\ lastUpdate' = [lastUpdate EXCEPT ![c] = view.lastUpdate]
        /\ delivered' = delivered \cup {<<c, session[c], data._id>>}
  /\ channel' = [channel EXCEPT ![c] = SubSeq(@, 1, Len(@) - 1)]
  /\ UNCHANGED <<reply, walk, trial, now, store, ingest, sockets, session, mounted,
                 connectionStatus, isLoading, error, polls, emitted>>

\* socket.on('sensor-data', data => updateLocationData(data))
OnSensorData(c) ==
  /\ channel[c] # <<>>
  /\ LET data == Head(channel[c])
         view == updateLocationData(ViewOf(c), data)
     IN /\ currentLocation' = [currentLocation EXCEPT ![c] = view.currentLocation]
        /\ lastUpdate' = [lastUpdate EXCEPT ![c] = view.lastUpdate]
        /\ delivered' = delivered \cup {<<c, session[c], data._id>>}
  /\ channel' = [channel EXCEPT ![c] = Tail(@)]
  /\ UNCHANGED <<reply, walk, trial, now, store, ingest, sockets, session, mounted,
                 connectionStatus, isLoading, error, polls, emitted>>

\* ------------------------------------------------------- viewer actions
\* faulty variant: the interval is cleared once an error is on display
FetchUntilError(c) ==
  /\ mounted[c]
  /\ ~error[c]
  /\ Len(polls[c]) < MaxPolls
  /\ isLoading' = [isLoading EXCEPT ![c] = TRUE]
  /\ polls' = [polls EXCEPT ![c] = Append(@, [st |-> "sent", data |-> {}])]
  /\ UNCHANGED <<reply, walk, trial, now, store, ingest, sockets, channel, session,
                 mounted, connectionStatus, currentLocation, lastUpdate, error,
                 emitted, delivered>>

\* fetchLatestData() up to the await, called by the interval or the Retry button
FetchLatestData(c) ==
  /\ mounted[c]
  /\ Len(polls[c]) < MaxPolls
  /\ isLoading' = [isLoading EXCEPT ![c] = TRUE]
  /\ polls' = [polls EXCEPT ![c] = Append(@, [st |-> "sent", data |-> {}])]
  /\ UNCHANGED <<reply, walk, trial, now, store, ingest, sockets, channel, session, mounted,
                 connectionStatus, currentLocation, lastUpdate, error, emitted,
                 delivered>>

\* the await resolves with the response; an unmounted component's setters do nothing
FetchResolve(c, k) ==
  /\ k \in 1..Len(polls[c])
  /\ polls[c][k].st = "answered"
  /\ polls' = [polls EXCEPT ![c] = RemoveAt(@, k)]
  /\ IF mounted[c]
     THEN \E data \in polls[c][k].data :
            LET view == updateLocationData(ViewOf(c), data)
            IN /\ currentLocation' = [currentLocation EXCEPT ![c] = view.currentLocation]
               /\ lastUpdate' = [lastUpdate EXCEPT ![c] = view.lastUpdate]
               /\ isLoading' = [isLoading EXCEPT ![c] = FALSE]
               /\ error' = [error EXCEPT ![c] = FALSE]
     ELSE UNCHANGED <<currentLocation, lastUpdate, isLoading, error>>
  /\ UNCHANGED <<reply, walk, trial, now, store, ingest, sockets, channel, session, mounted,
                 connectionStatus, emitted, delivered>>

\* faulty variant: setIsLoading(false) only on the success path
FetchRejectKeepsLoading(c, k) ==
  /\ k \in 1..Len(polls[c])
  /\ polls' = [polls EXCEPT ![c] = RemoveAt(@, k)]
  /\ IF mounted[c]
     THEN error' = [error EXCEPT ![c] = TRUE]
     ELSE UNCHANGED error
  /\ UNCHANGED <<reply, walk, trial, now, store, ingest, sockets, channel, session, mounted,
                 connectionStatus, currentLocation, lastUpdate, isLoading, emitted,
                 delivered>>

\* the await rejects (no answer, or the handler's 500): the catch block
FetchReject(c, k) ==
  /\ k \in 1..Len(polls[c])
  /\ polls' = [polls EXCEPT ![c] = RemoveAt(@, k)]
  /\ IF mounted[c]
     THEN /\ error' = [error EXCEPT ![c] = TRUE]
          /\ isLoading' = [isLoading EXCEPT ![c] = FALSE]
     ELSE UNCHANGED <<isLoading, error>>
  /\ UNCHANGED <<reply, walk, trial, now, store, ingest, sockets, channel, session, mounted,
                 connectionStatus, currentLocation, lastUpdate, emitted, delivered>>

\* faulty variant: the socket effect returns no cleanup, the socket stays open
UnmountKeepsSocket(c) ==
  /\ mounted[c]
  /\ mounted' = [mounted EXCEPT ![c] = FALSE]
  /\ UNCHANGED <<reply, walk, trial, now, store, ingest, sockets, channel, session,
                 connectionStatus, currentLocation, lastUpdate, isLoading, error,
                 polls, emitted, delivered>>

\* the component unmounts: the effects' cleanups run socket.close() and clearInterval
Unmount(c) ==
  /\ mounted[c]
  /\ mounted' = [mounted EXCEPT ![c] = FALSE]
  /\ sockets' = sockets \ {c}
  /\ channel' = [channel EXCEPT ![c] = <<>>]
  /\ UNCHANGED <<reply, walk, trial, now, store, ingest, session, connectionStatus,
                 currentLocation, lastUpdate, isLoading, error, polls, emitted,
                 delivered>>

\* -------------------------------------------------------- query actions
\* GET /api/data up to the second await: page, limit and skip, then the find
GetDataFind(pageParam, limitParam) ==
  /\ reply.pc = "done"
  /\ LET page == OrDefault(parseInt(pageParam), DefaultPage)
         limit == OrDefault(parseInt(limitParam), DefaultLimit)
         skip == (page - 1) * limit
     IN IF skip < 0
        THEN \* the database refuses a negative skip: the catch block answers 500
             reply' = [NoReply EXCEPT !.route = "data", !.status = 500,
                                      !.page = page, !.limit = limit]
        ELSE \E order \in SortedDesc(store) :
               reply' = [NoReply EXCEPT !.route = "data", !.pc = "counting",
                                        !.page = page, !.limit = limit,
                                        !.data = SkipLimit(order, skip, limit)]
  /\ UNCHANGED <<walk, trial, now, store, ingest, sockets, channel, session,
                 mounted, connectionStatus, currentLocation, lastUpdate,
                 isLoading, error, polls, emitted, delivered>>

\* what the paging reader holds after an answer
Walked(w, r) ==
  IF r.page = 1
  THEN [on |-> TRUE, limit |-> r.limit, next |-> 2, items |-> r.data,
        pages |-> r.pages, clean |-> ~r.dirty]
  ELSE IF w.on /\ r.limit = w.limit /\ r.page = w.next
       THEN [w EXCEPT !.next = @ + 1, !.items = @ \o r.data, !.pages = r.pages]
       ELSE w

\* GET /api/data after the second await: countDocuments, then the answer
GetDataCount ==
  /\ reply.pc = "counting"
  /\ LET answer == [reply EXCEPT !.pc = "done", !.status = 200,
                                 !.total = Cardinality(store),
                                 !.pages = CeilDiv(Cardinality(store), reply.limit)]
     IN /\ reply' = answer
        /\ walk' = Walked(walk, answer)
  /\ UNCHANGED <<trial, now, store, ingest, sockets, channel, session,
                 mounted, connectionStatus, currentLocation, lastUpdate,
                 isLoading, error, polls, emitted, delivered>>

\* the documents find({timestamp: {$gte: from, $lte: to}}) matches
InRange(docs, from, to) == {d \in docs : from <= d.timestamp /\ d.timestamp <= to}

\* GET /api/data/range
GetRange(startDate, endDate) ==
  /\ reply.pc = "done"
  /\ IF Falsy(startDate) \/ Falsy(endDate)
     THEN reply' = [NoReply EXCEPT !.route = "range", !.status = 400,
                                   !.first = startDate, !.second = endDate]
     ELSE LET from == NewDate(CHOOSE x \in startDate : TRUE)
              to == NewDate(CHOOSE x \in endDate : TRUE)
          IN IF from = {} \/ to = {}
             THEN \* the find cannot cast an Invalid Date: the catch block answers 500
                  reply' = [NoReply EXCEPT !.route = "range", !.status = 500,
                                           !.first = startDate, !.second = endDate]
             ELSE \E order \in SortedDesc(InRange(store, CHOOSE t \in from : TRUE,
                                                          CHOOSE t \in to : TRUE)) :
                    reply' = [NoReply EXCEPT !.route = "range", !.status = 200,
                                             !.first = startDate, !.second = endDate,
                                             !.data = order]
  /\ UNCHANGED <<walk, trial, now, store, ingest, sockets, channel, session,
                 mounted, connectionStatus, currentLocation, lastUpdate,
                 isLoading, error, polls, emitted, delivered>>

\* ------------------------------------------------- the merge, step by step
\* the readings a viewer can be handed: stored documents and the default reading
Readings ==
  {NewSensorData(b, id, t) : b \in StampedBodies,
                             id \in 1..MaxIngest, t \in 1..MaxTime}
    \cup {DefaultReading(t) : t \in 1..MaxTime}

InitialView == [currentLocation |-> InitialLocation, lastUpdate |-> NoDate]

\* the views a viewer can hold
Views == {InitialView} \cup {updateLocationData(InitialView, r) : r \in Readings}

\* updateLocationData called once more with the same reading
ApplyAgain ==
  /\ trial.applied < MaxApplied
  /\ \E v \in trial.view : \E d \in trial.data :
       trial' = [trial EXCEPT !.view = {updateLocationData(v, d)},
                              !.applied = @ + 1]
  /\ UNCHANGED <<reply, walk, now, store, ingest, sockets, channel, session,
                 mounted, connectionStatus, currentLocation, lastUpdate,
                 isLoading, error, polls, emitted, delivered>>

\* ------------------------------------------------------------------ Next
Ingest(bodies) ==
  \/ Tick
  \/ \E body \in bodies : PostArduino(body)
  \/ \E i \in 1..Len(ingest) : SaveStored(i)
  \/ \E i \in 1..Len(ingest) : SaveRejected(i)
  \/ \E i \in 1..Len(ingest) : EmitAndAck(i)

Push ==
  \/ \E c \in Clients : Connect(c)
  \/ \E c \in Clients : Disconnect(c)
  \/ \E c \in Clients : OnSensorData(c)
  \/ \E c \in Clients : Unmount(c)

Poll ==
  \/ \E c \in Clients : FetchLatestData(c)
  \/ \E c \in Clients : \E k \in 1..Len(polls[c]) : GetLatest(c, k)
  \/ \E c \in Clients : \E k \in 1..Len(polls[c]) : FetchResolve(c, k)
  \/ \E c \in Clients : \E k \in 1..Len(polls[c]) : FetchReject(c, k)

\* one viewer, end to end
Next == Ingest(DeviceBodies) \/ Push \/ Poll

Spec == Init /\ [][Next]_vars

\* the backend and the push channel of every viewer
NextFanout == Ingest(Bodies) \/ Push

SpecFanout == InitWith(Clients) /\ [][NextFanout]_vars

\* the backend and a reader paging through GET /api/data
Pages ==
  \/ \E p \in Optional(PageStrings) : \E l \in Optional(LimitStrings) : GetDataFind(p, l)
  \/ GetDataCount

NextPages == Ingest(DeviceBodies) \/ Pages

SpecPages == InitWith({}) /\ [][NextPages]_vars

\* the backend and a reader of GET /api/data/range
NextRange ==
  \/ Ingest(DeviceBodies)
  \/ \E s, e \in Optional(DateStrings) : GetRange(s, e)

SpecRange == InitWith({}) /\ [][NextRange]_vars

\* one viewer that stays mounted and handles no push (every event is lost on
\* the wire or waits there), with a timer that keeps firing and requests that
\* keep being answered
NextLive ==
  \/ Ingest(DeviceBodies)
  \/ Poll
  \/ \E c \in Clients : Connect(c)
  \/ \E c \in Clients : Disconnect(c)

SpecLive ==
  /\ Init
  /\ [][NextLive]_vars
  /\ SF_vars(FetchLatestData("v1"))
  /\ SF_vars(\E k \in 1..MaxPolls : GetLatest("v1", k))
  /\ SF_vars(\E k \in 1..MaxPolls : FetchResolve("v1", k))

\* updateLocationData on every view and reading
InitMerge ==
  /\ now = 1 /\ store = {} /\ ingest = <<>> /\ sockets = {}
  /\ channel = [c \in Clients |-> <<>>]
  /\ session = [c \in Clients |-> 0]
  /\ mounted = [c \in Clients |-> FALSE]
  /\ connectionStatus = [c \in Clients |-> "Disconnected"]
  /\ currentLocation = [c \in Clients |-> InitialLocation]
  /\ lastUpdate = [c \in Clients |-> NoDate]
  /\ isLoading = [c \in Clients |-> TRUE]
  /\ error = [c \in Clients |-> FALSE]
  /\ polls = [c \in Clients |-> <<>>]
  /\ emitted = <<>> /\ delivered = {}
  /\ reply = NoReply /\ walk = NoWalk
  /\ \E v \in Views : \E d \in Readings :
       trial = [base |-> {v}, data |-> {d}, view |-> {v}, applied |-> 0]

SpecMerge == InitMerge /\ [][ApplyAgain]_vars

\* ================================================================ claims
HasId(docs, id) == \E d \in docs : d._id = id

EmitsOf(id) == {k \in 1..Len(emitted) : emitted[k].id = id}

OnWire(c, id) == \E j \in 1..Len(channel[c]) : channel[c][j]._id = id

\* the view that shows exactly the stored document d
Shows(c, d) == ViewOf(c) = updateLocationData(InitialView, d)

\* C1: a viewer's view never goes back in time: once it shows a stored reading,
\* no push and no poll response replaces it by a stored reading with a smaller
\* timestamp (the displayed timestamp never decreases).
C1_ViewNeverRegresses ==
  [][\A c \in Clients :
       ((\E d \in store : Shows(c, d)) /\ (\E d \in store' : Shows(c, d)'))
         => lastUpdate'[c] >= lastUpdate[c]]_vars

\* C2: an ingest whose payload lacks a required field is never acknowledged with
\* success, adds no document to the store, and none of its data is emitted to,
\* on the wire to, or handled by any viewer.
C2_RejectedIngestLeavesNoTrace ==
  \A i \in 1..Len(ingest) :
    ~(RequiredFields \subseteq DOMAIN ingest[i].doc) =>
      /\ ingest[i].pc \in {"saving", "failed"}
      /\ ~HasId(store, i)
      /\ EmitsOf(i) = {}
      /\ \A c \in Clients : ~OnWire(c, i)
      /\ \A c \in Clients : \A s \in 0..session[c] : <<c, s, i>> \notin delivered

\* a payload without a required field was answered 500 while a viewer was connected
C2_Witness ==
  \E i \in 1..Len(ingest) :
    /\ "humidity" \notin DOMAIN ingest[i].doc
    /\ ingest[i].pc = "failed"
    /\ sockets # {}
    /\ store # {}

\* C3: persist, then broadcast, then acknowledge: every event emitted or on the
\* wire carries a document that is in the store, an acknowledged ingest is stored
\* and was broadcast exactly once, and an ingest not yet acknowledged (or failed)
\* was not broadcast.
C3_PersistBroadcastAck ==
  /\ \A k \in 1..Len(emitted) : HasId(store, emitted[k].id)
  /\ \A c \in Clients : \A j \in 1..Len(channel[c]) : channel[c][j] \in store
  /\ \A i \in 1..Len(ingest) :
       /\ ingest[i].pc = "acked" =>
            ingest[i].doc \in store /\ Cardinality(EmitsOf(i)) = 1
       /\ ingest[i].pc # "acked" => EmitsOf(i) = {}

\* an ingest was acknowledged after its event went to a connected viewer
C3_Witness ==
  \E i \in 1..Len(ingest) :
    /\ ingest[i].pc = "acked"
    /\ \E k \in EmitsOf(i) : emitted[k].audience # {}

\* C4: whenever GET /api/latest is answered, the answer is a stored document of
\* maximum timestamp if the store is not empty; so for every ingest R acknowledged
\* before, its timestamp is >= R's, and it is R itself when no other stored
\* document has a timestamp >= R's.
C4_LatestAfterAck ==
  [][\A c \in Clients : \A k \in 1..Len(polls[c]) :
       GetLatest(c, k) =>
         \A body \in polls'[c][k].data :
           /\ store # {} =>
                body \in store /\ \A d \in store : body.timestamp >= d.timestamp
           /\ \A i \in 1..Len(ingest) :
                ingest[i].pc = "acked" =>
                  /\ body \in store
                  /\ body.timestamp >= ingest[i].doc.timestamp
                  /\ (\A d \in store \ {ingest[i].doc} :
                        d.timestamp < ingest[i].doc.timestamp)
                       => body = ingest[i].doc]_vars

\* a poll was answered with the later of two stored documents, both acknowledged
C4_Witness ==
  \E c \in Clients : \E k \in 1..Len(polls[c]) :
    /\ polls[c][k].st = "answered"
    /\ Len(ingest) = 2
    /\ \A i \in 1..2 : ingest[i].pc = "acked"
    /\ ingest[1].doc.timestamp < ingest[2].doc.timestamp
    /\ polls[c][k].data = {ingest[2].doc}

IsSortedDesc(q) ==
  \A i, j \in 1..Len(q) : i < j => q[i].timestamp >= q[j].timestamp

\* C5: a page of GET /api/data asked with page >= 1 and limit >= 1 is answered
\* 200 with at most limit documents in descending timestamp order, and the pages
\* 1..pages of one limit, fetched while no document is saved, concatenate to the
\* whole store in descending timestamp order, each document exactly once.
C5_PagesReproduceStore ==
  /\ (reply.route = "data" /\ reply.pc = "done" /\ reply.page >= 1 /\ reply.limit >= 1)
       => /\ reply.status = 200
          /\ Len(reply.data) <= reply.limit
          /\ IsSortedDesc(reply.data)
  /\ (walk.on /\ walk.clean /\ walk.limit >= 1 /\ walk.next > walk.pages)
       => walk.items \in SortedDesc(store)

\* a string that is not the decimal number of an instant
Unparsable(param) ==
  \E s \in param : s # <<>> /\ \E i \in 1..Len(s) : s[i] \notin Digits

Elements(q) == {q[i] : i \in 1..Len(q)}

\* C6: GET /api/data/range answers 400 with no data when a bound is absent or
\* does not parse as a point in time, and otherwise 200 with exactly the stored
\* documents with start <= timestamp <= end, each once, in descending order.
C6_RangeExactOrRejected ==
  [][\A s, e \in Optional(DateStrings) :
       GetRange(s, e) =>
         IF Falsy(s) \/ Falsy(e) \/ Unparsable(s) \/ Unparsable(e)
         THEN reply'.status = 400 /\ reply'.data = <<>>
         ELSE /\ reply'.status = 200
              /\ IsSortedDesc(reply'.data)
              /\ Len(reply'.data) = Cardinality(Elements(reply'.data))
              /\ Elements(reply'.data) =
                   {d \in store : /\ Decimal(CHOOSE x \in s : TRUE) <= d.timestamp
                                  /\ d.timestamp <= Decimal(CHOOSE x \in e : TRUE)}]_vars

\* C7: a 'sensor-data' event reaches exactly the sessions connected when it was
\* emitted: every event a viewer handles or has on the wire was emitted while
\* that very session was connected, and every session connected at the emit has
\* handled the event, has it on the wire, or has ended.
C7_PushOnlyToConnected ==
  /\ \A x \in delivered :
       \E k \in EmitsOf(x[3]) : <<x[1], x[2]>> \in emitted[k].audience
  /\ \A c \in Clients : \A j \in 1..Len(channel[c]) :
       /\ c \in sockets
       /\ \E k \in EmitsOf(channel[c][j]._id) : <<c, session[c]>> \in emitted[k].audience
  /\ \A k \in 1..Len(emitted) : \A a \in emitted[k].audience :
       \/ <<a[1], a[2], emitted[k].id>> \in delivered
       \/ OnWire(a[1], emitted[k].id)
       \/ a[1] \notin sockets
       \/ session[a[1]] # a[2]

\* an event was handled by one viewer, and another viewer is connected now in a
\* session that began after the emit and has nothing on the wire
C7_Witness ==
  \E k \in 1..Len(emitted) : \E c1, c2 \in Clients :
    /\ <<c1, session[c1], emitted[k].id>> \in delivered
    /\ c2 \in sockets
    /\ <<c2, session[c2]>> \notin emitted[k].audience
    /\ session[c2] = 2
    /\ <<c2, 1>> \in emitted[k].audience
    /\ channel[c2] = <<>>

\* C8: every transition of a viewer into Connected leaves a pull of latest() that
\* was issued and is not yet answered.
C8_ConnectPullsLatest ==
  [][\A c \in Clients :
       (connectionStatus[c] = "Disconnected" /\ connectionStatus'[c] = "Connected")
         => \E k \in 1..Len(polls'[c]) : polls'[c][k].st = "sent"]_vars

\* C9: while the viewer is mounted the poll can always be started again, whatever
\* the connection state and whether or not an error is on display; and every
\* stored reading is eventually on display, or a reading at least as new, also
\* when no push delivers it.
C9_PollRepairsLostPush ==
  /\ [](\A c \in Clients :
          (mounted[c] /\ Len(polls[c]) < MaxPolls) => ENABLED FetchLatestData(c))
  /\ \A t \in 1..MaxTime :
       []((\E d \in store : d.timestamp = t)
            => <>(\E d \in store : d.timestamp >= t /\ Shows("v1", d)))

\* the newest reading, whose event went to nobody, is on display
C9_Witness ==
  \E k \in 1..Len(emitted) : \E d \in store :
    /\ emitted[k].audience = {}
    /\ d._id = emitted[k].id
    /\ delivered = {}
    /\ Shows("v1", d)
    /\ d.timestamp = MaxTimestamp(store)
    /\ connectionStatus["v1"] = "Disconnected"

\* C10: updateLocationData is idempotent: called twice or more with one reading,
\* it leaves the view that one call leaves.
C10_MergeIdempotent ==
  trial.applied >= 1 =>
    \A v \in trial.base : \A d \in trial.data :
      trial.view = {updateLocationData(v, d)}

\* a reading was applied twice to a view that showed another reading
C10_Witness ==
  /\ trial.applied = 2
  /\ \A v \in trial.base : v.lastUpdate # NoDate /\ v # CHOOSE w \in trial.view : TRUE

\* C11: within one socket session, 'sensor-data' events are handled in the order
\* of the io.emit calls: when a session handles the event of one emit, it has
\* handled no event of a later emit, and every event of an earlier emit that
\* went to this session has been handled (none is overtaken or skipped), also
\* when the emits come from ingest requests in flight at the same time.
C11_PushOrderWithinSession ==
  [][\A x \in delivered' \ delivered :
       \A k \in EmitsOf(x[3]) : \A k2 \in 1..Len(emitted) :
         /\ k2 > k => <<x[1], x[2], emitted[k2].id>> \notin delivered
         /\ (k2 < k /\ <<x[1], x[2]>> \in emitted[k2].audience)
              => <<x[1], x[2], emitted[k2].id>> \in delivered]_vars

\* two ingests were in flight together, the second one's event was emitted
\* first, and one session that stayed connected has handled both events
C11_Witness ==
  /\ Len(emitted) = 2
  /\ emitted[1].id = 2
  /\ emitted[2].id = 1
  /\ \E c \in Clients :
       /\ c \in sockets
       /\ <<c, session[c], 1>> \in delivered
       /\ <<c, session[c], 2>> \in delivered

\* C12: the connection state of a viewer is "Disconnected" (as long as its
\* socket has never connected) or "Connected", nothing else; and a step from
\* Connected to Disconnected changes nothing else of the viewer: the reading on
\* display, its timestamp, the loading flag, the error and the requests in
\* flight are what they were.
C12_DisconnectKeepsView ==
  /\ [](\A c \in Clients :
          /\ connectionStatus[c] \in {"Disconnected", "Connected"}
          /\ session[c] = 0 => connectionStatus[c] = "Disconnected")
  /\ [][\A c \in Clients :
         (connectionStatus[c] = "Connected" /\ connectionStatus'[c] = "Disconnected")
           => /\ currentLocation'[c] = currentLocation[c]
              /\ lastUpdate'[c] = lastUpdate[c]
              /\ isLoading'[c] = isLoading[c]
              /\ error'[c] = error[c]
              /\ polls'[c] = polls[c]]_vars

\* a viewer that was connected is disconnected and still shows a stored reading
C12_Witness ==
  \E c \in Clients : \E d \in store :
    /\ mounted[c]
    /\ session[c] >= 1
    /\ connectionStatus[c] = "Disconnected"
    /\ Shows(c, d)

\* C13: once a viewer's component is unmounted, its socket is closed (the server
\* holds no connection of it and no event is on its wire), and from then on it
\* stays unmounted, starts no poll, handles no push, and nothing of its state
\* (reading on display, timestamp, loading flag, error, connection state)
\* changes, also when a poll that was in flight at the unmount is answered,
\* resolves or rejects.
C13_UnmountReleases ==
  /\ [](\A c \in Clients : ~mounted[c] => (c \notin sockets /\ channel[c] = <<>>))
  /\ [][\A c \in Clients :
         ~mounted[c]
           => /\ ~mounted'[c]
              /\ Len(polls'[c]) <= Len(polls[c])
              /\ currentLocation'[c] = currentLocation[c]
              /\ lastUpdate'[c] = lastUpdate[c]
              /\ isLoading'[c] = isLoading[c]
              /\ error'[c] = error[c]
              /\ connectionStatus'[c] = connectionStatus[c]
              /\ session'[c] = session[c]
              /\ {x \in delivered' : x[1] = c} = {x \in delivered : x[1] = c}]_vars

\* a viewer was unmounted while connected, with an event emitted to its session
\* that it never handled and with its first poll in flight; that poll has been
\* settled since, a reading is stored, and the view is still the initial one
C13_Witness ==
  \E c \in Clients :
    /\ ~mounted[c]
    /\ session[c] >= 1
    /\ connectionStatus[c] = "Connected"
    /\ \E k \in 1..Len(emitted) :
         /\ <<c, session[c]>> \in emitted[k].audience
         /\ <<c, session[c], emitted[k].id>> \notin delivered
    /\ polls[c] = <<>>
    /\ isLoading[c]
    /\ store # {}
    /\ ViewOf(c) = InitialView

\* a request of the mounted viewer c settles in this step (resolves or rejects)
Settles(c) == mounted[c] /\ Len(polls'[c]) < Len(polls[c])

\* C14: when a poll of a mounted viewer fails, the error (with its Retry button)
\* is on display, the loading flag is cleared, and the reading on display and
\* its timestamp are unchanged; the error appears only that way; it goes away
\* only when a poll succeeds, and every poll that succeeds leaves no error and
\* no loading flag; and while the error is on display the viewer can still
\* start a poll (timer or Retry), handle a push that has arrived, and take the
\* answer of a poll.
C14_FailedPollRecoverable ==
  /\ [][\A c \in Clients :
         /\ Settles(c) => ~isLoading'[c]
         /\ \A k \in 1..Len(polls[c]) :
              /\ (mounted[c] /\ FetchReject(c, k))
                   => /\ error'[c]
                      /\ currentLocation'[c] = currentLocation[c]
                      /\ lastUpdate'[c] = lastUpdate[c]
              /\ (mounted[c] /\ FetchResolve(c, k)) => ~error'[c]
         /\ (~error[c] /\ error'[c])
              => /\ Settles(c)
                 /\ currentLocation'[c] = currentLocation[c]
                 /\ lastUpdate'[c] = lastUpdate[c]
         /\ (error[c] /\ ~error'[c])
              => /\ Settles(c)
                 /\ \E k \in 1..Len(polls[c]) :
                      /\ polls[c][k].st = "answered"
                      /\ polls'[c] = RemoveAt(polls[c], k)]_vars
  /\ [](\A c \in Clients :
          (mounted[c] /\ error[c])
            => /\ Len(polls[c]) < MaxPolls => ENABLED FetchLatestData(c)
               /\ channel[c] # <<>> => ENABLED OnSensorData(c)
               /\ \A k \in 1..Len(polls[c]) :
                    polls[c][k].st = "answered" => ENABLED FetchResolve(c, k))

\* a poll failed after a stored reading was put on display: the error is shown,
\* nothing is loading, the reading is still on display, a push has arrived, and
\* the next poll can start
C14_Witness ==
  \E c \in Clients : \E d \in store :
    /\ mounted[c]
    /\ error[c]
    /\ ~isLoading[c]
    /\ Shows(c, d)
    /\ channel[c] # <<>>
    /\ polls[c] = <<>>

\* C15: once a viewer's view has been updated, what it shows is a stored
\* reading: the values and the timestamp on display are those of a document of
\* the collection, also when the viewer polled while the collection was empty.
C15_ViewShowsStoredReading ==
  \A c \in Clients :
    ViewOf(c) # InitialView => \E d \in store : Shows(c, d)

====
